---- MODULE Spec2Model ----
(***************************************************************************)
(* Model of OpenAPIGenerator (src/src/index.ts): the document builder      *)
(* (addRoute, addRoutes, addServer, addSecurityScheme) and the type-to-    *)
(* schema inference it drives (extractTypeSchema, getSchemaForType,        *)
(* getTypeString).                                                         *)
(*                                                                         *)
(* A ts-morph Type is modelled as a type id; the type checker is the table *)
(* `types` that maps an id to what the type's predicates and accessors     *)
(* answer: preds (the is...() predicates that hold), elem                  *)
(* (getArrayElementType), union (getUnionTypes), props (getProperties) and *)
(* literal (getLiteralValue).                                              *)
(***************************************************************************)
EXTENDS Integers, Sequences, FiniteSets, TLC

VARIABLES
    types,            \* the type checker's view of every type (fixed after construction)
    sources,          \* this.project.getSourceFiles(), in order
    paths,            \* this.spec.paths
    schemas,          \* this.spec.components.schemas
    securitySchemes,  \* this.spec.components.securitySchemes
    servers,          \* this.spec.servers
    result,           \* outcome of the last public call (returned / thrown)
    trace,            \* extractTypeSchema calls made by the last public call
    calls,            \* number of public calls made so far
    inherited,        \* keys addRoute has written on Object.prototype and on its methods
    handle,           \* argument of the inference call under way
    pc,               \* position of the inference call
    cur,              \* `type` of the innermost getSchemaForType frame
    depth,            \* number of getSchemaForType frames waiting on an array element
    out               \* value returned by the inference call

docVars == <<paths, schemas, securitySchemes, servers, result, trace, calls, inherited>>
inferVars == <<handle, pc, cur, depth, out>>
vars == <<types, sources, paths, schemas, securitySchemes, servers, result,
          trace, calls, inherited, handle, pc, cur, depth, out>>

----------------------------------------------------------------------------
(* Bounds *)

MaxDepth == 2          \* deepest array nesting of an inferred type
MaxCalls == 2          \* public builder calls per behaviour
NumSources == 2        \* source files in the project
MaxBatch == 2          \* longest array handed to addRoutes

----------------------------------------------------------------------------
(* Type handles *)

Predicates ==
    {"isArray", "isEnum", "isObject", "isNumberLiteral", "isNumber",
     "isStringLiteral", "isString", "isBooleanLiteral", "isBoolean",
     "isNull", "isUndefined"}

\* name: the declared type, dim: how many [] follow it
TypeId(n, d) == [name |-> n, dim |-> d]
NoType == TypeId("", 0)

Descriptor(p, e, u, pr, l) ==
    [preds |-> p, elem |-> e, union |-> u, props |-> pr, literal |-> l]
NoLiteral == [none |-> TRUE]
StrLit(s) == [str |-> s]
NumLit(n) == [num |-> n]

Plain(p) == Descriptor(p, NoType, <<>>, <<>>, NoLiteral)
ArrayOf(e) == Descriptor({"isArray", "isObject"}, e, <<>>, <<>>, NoLiteral)
ObjectOf(pr) == Descriptor({"isObject"}, NoType, <<>>, pr, NoLiteral)
EnumOf(u) == Descriptor({"isEnum"}, NoType, u, <<>>, NoLiteral)
StringLiteral(s) == Descriptor({"isStringLiteral"}, NoType, <<>>, <<>>, StrLit(s))
NumberLiteral(n) == Descriptor({"isNumberLiteral"}, NoType, <<>>, <<>>, NumLit(n))
Prop(n, t) == [name |-> n, type |-> t]

isArray(t) == "isArray" \in types[t].preds
isEnum(t) == "isEnum" \in types[t].preds
isObject(t) == "isObject" \in types[t].preds
isNumberLiteral(t) == "isNumberLiteral" \in types[t].preds
isNumber(t) == "isNumber" \in types[t].preds
isStringLiteral(t) == "isStringLiteral" \in types[t].preds
isString(t) == "isString" \in types[t].preds
isBooleanLiteral(t) == "isBooleanLiteral" \in types[t].preds
isBoolean(t) == "isBoolean" \in types[t].preds
isNull(t) == "isNull" \in types[t].preds
isUndefined(t) == "isUndefined" \in types[t].preds
getArrayElementType(t) == types[t].elem
getUnionTypes(t) == types[t].union
getProperties(t) == types[t].props
getLiteralValue(t) == types[t].literal

----------------------------------------------------------------------------
(* Plain objects used as maps *)

\* the accessor property of Object.prototype every plain object inherits
ProtoKey == "__proto__"

\* obj[key] = value on a plain object, as its own keys see it: an assignment to
\* "__proto__" goes through the setter of Object.prototype, which replaces the
\* prototype of obj and adds no key
Assign(obj, key, value) ==
    IF key = ProtoKey THEN obj ELSE (key :> value) @@ obj

\* "__proto__" spelled as a path is
ProtoPath == <<"_", "_", "p", "r", "o", "t", "o", "_", "_">>

\* the property names Object.prototype has when the generator is constructed,
\* spelled as paths are: a lookup of one of them on a plain object without that
\* key finds the inherited value, which is a method of Object.prototype or, for
\* "__proto__", Object.prototype itself
InheritedPaths ==
    {<<"c", "o", "n", "s", "t", "r", "u", "c", "t", "o", "r">>,
     <<"_", "_", "d", "e", "f", "i", "n", "e", "G", "e", "t", "t", "e", "r", "_", "_">>,
     <<"_", "_", "d", "e", "f", "i", "n", "e", "S", "e", "t", "t", "e", "r", "_", "_">>,
     <<"h", "a", "s", "O", "w", "n", "P", "r", "o", "p", "e", "r", "t", "y">>,
     <<"_", "_", "l", "o", "o", "k", "u", "p", "G", "e", "t", "t", "e", "r", "_", "_">>,
     <<"_", "_", "l", "o", "o", "k", "u", "p", "S", "e", "t", "t", "e", "r", "_", "_">>,
     <<"i", "s", "P", "r", "o", "t", "o", "t", "y", "p", "e", "O", "f">>,
     <<"p", "r", "o", "p", "e", "r", "t", "y", "I", "s", "E", "n", "u", "m", "e", "r", "a", "b", "l", "e">>,
     <<"t", "o", "S", "t", "r", "i", "n", "g">>,
     <<"v", "a", "l", "u", "e", "O", "f">>,
     <<"_", "_", "p", "r", "o", "t", "o", "_", "_">>,
     <<"t", "o", "L", "o", "c", "a", "l", "e", "S", "t", "r", "i", "n", "g">>}

\* types.ts:62, the methods of a route, each with its spelling as a path
MethodSpelling ==
    [get |-> <<"g", "e", "t">>,
     post |-> <<"p", "o", "s", "t">>,
     put |-> <<"p", "u", "t">>,
     delete |-> <<"d", "e", "l", "e", "t", "e">>,
     patch |-> <<"p", "a", "t", "c", "h">>]

\* inh[p] holds the keys written on the object a lookup of p inherits; the keys
\* written on Object.prototype itself, inh[ProtoPath], are inherited by every
\* plain object from then on
WrittenPaths(inh) == { MethodSpelling[m] : m \in DOMAIN inh[ProtoPath] }

\* the key of Object.prototype a written path spells
MethodSpelt(path) == CHOOSE m \in DOMAIN MethodSpelling : MethodSpelling[m] = path

\* Object.prototype and its methods as the constructor finds them
NothingWritten == [p \in InheritedPaths |-> <<>>]

----------------------------------------------------------------------------
(* Inference: getTypeString and getSchemaForType *)

\* the table with its object row tested before its array row
getTypeStringObjectFirst(t) ==
    IF isNumberLiteral(t) \/ isNumber(t) THEN "number"
    ELSE IF isStringLiteral(t) \/ isString(t) THEN "string"
    ELSE IF isBooleanLiteral(t) \/ isBoolean(t) THEN "boolean"
    ELSE IF isObject(t) THEN "object"
    ELSE IF isArray(t) THEN "array"
    ELSE IF isNull(t) \/ isUndefined(t) THEN "null"
    ELSE "string"

getTypeString(t) ==
    IF isNumberLiteral(t) \/ isNumber(t) THEN "number"
    ELSE IF isStringLiteral(t) \/ isString(t) THEN "string"
    ELSE IF isBooleanLiteral(t) \/ isBoolean(t) THEN "boolean"
    ELSE IF isArray(t) THEN "array"
    ELSE IF isObject(t) THEN "object"
    ELSE IF isNull(t) \/ isUndefined(t) THEN "null"
    ELSE "string"

\* the members' values taken last to first
EnumValuesReversed(t) ==
    [i \in 1..Len(getUnionTypes(t)) |->
        getLiteralValue(getUnionTypes(t)[Len(getUnionTypes(t)) + 1 - i])]

\* type.getUnionTypes().map(t => t.getLiteralValue())
EnumValues(t) ==
    [i \in 1..Len(getUnionTypes(t)) |-> getLiteralValue(getUnionTypes(t)[i])]

EnumSchema(t) == [type |-> "string", enum |-> EnumValues(t)]

\* a property inferred in depth when it is an object
PropSchemaDeep(propType) ==
    IF isEnum(propType) THEN EnumSchema(propType)
    ELSE IF isObject(propType) /\ ~isArray(propType)
    THEN [type |-> "object",
          properties |-> [n \in { getProperties(propType)[i].name :
                                      i \in DOMAIN getProperties(propType) } |->
                             [type |-> "string"]]]
    ELSE [type |-> getTypeString(propType)]

\* the body of the forEach over getProperties(): the fragment of one property
PropSchema(propType) ==
    IF isEnum(propType) THEN EnumSchema(propType)
    ELSE [type |-> getTypeString(propType)]

\* properties[prop.getName()] = propSchema, for the first n properties in order
RECURSIVE PropertiesOf(_, _)
PropertiesOf(props, n) ==
    IF n = 0 THEN <<>>
    ELSE LET p == props[n]
             before == PropertiesOf(props, n - 1)
         IN  Assign(before, p.name, PropSchema(p.type))

\* an object branch that gives a bare kind to a type without properties
ObjectSchemaNonEmpty(t) ==
    IF getProperties(t) = <<>> THEN [type |-> "object"]
    ELSE [type |-> "object",
          properties |-> PropertiesOf(getProperties(t), Len(getProperties(t)))]

\* lines 291-314: the object branch
ObjectSchema(t) ==
    [type |-> "object",
     properties |-> PropertiesOf(getProperties(t), Len(getProperties(t)))]

\* the object branch tested before the enum branch
BaseSchemaObjectFirst(t) ==
    IF isObject(t) THEN ObjectSchema(t)
    ELSE IF isEnum(t) THEN EnumSchema(t)
    ELSE [type |-> getTypeString(t)]

\* getSchemaForType below its array branch
BaseSchema(t) ==
    IF isEnum(t) THEN EnumSchema(t)
    ELSE IF isObject(t) THEN ObjectSchema(t)
    ELSE [type |-> getTypeString(t)]

ArraySchema(items) == [type |-> "array", items |-> items]

RECURSIVE getSchemaForType(_)
getSchemaForType(t) ==
    IF isArray(t) THEN ArraySchema(getSchemaForType(getArrayElementType(t)))
    ELSE BaseSchema(t)

\* the returns of the frames waiting on an array element, innermost first
RECURSIVE Wrap(_, _)
Wrap(n, s) == IF n = 0 THEN s ELSE Wrap(n - 1, ArraySchema(s))

----------------------------------------------------------------------------
(* The inference call, one getSchemaForType frame at a time *)

MaxFrames == MaxDepth + 2    \* frames the call stack holds before RangeError

\* t stops being an array within n array-element steps
RECURSIVE NestingWithin(_, _)
NestingWithin(t, n) ==
    IF ~isArray(t) THEN TRUE
    ELSE IF n = 0 THEN FALSE
    ELSE IF getArrayElementType(t) = NoType THEN FALSE
    ELSE NestingWithin(getArrayElementType(t), n - 1)

\* the array nesting of t is finite: no array type is its own element, however far down
FiniteArrayNesting(t) == NestingWithin(t, Cardinality(DOMAIN types))

\* every array met within n element steps has an element type
RECURSIVE ElementsDefined(_, _)
ElementsDefined(t, n) ==
    IF ~isArray(t) THEN TRUE
    ELSE IF getArrayElementType(t) = NoType THEN FALSE
    ELSE IF n = 0 THEN TRUE
    ELSE ElementsDefined(getArrayElementType(t), n - 1)

WellFormed(t) == ElementsDefined(t, MaxFrames)

\* a caller enters getSchemaForType(handle)
InferCall ==
    /\ pc = "idle"
    /\ WellFormed(handle)
    /\ pc' = "getSchemaForType"
    /\ cur' = handle
    /\ depth' = 0
    /\ UNCHANGED <<handle, out>>

\* the array branch recursing on the type itself instead of its element
InferArrayStuck ==
    /\ pc = "getSchemaForType"
    /\ isArray(cur)
    /\ depth < MaxFrames
    /\ cur' = cur
    /\ depth' = depth + 1
    /\ UNCHANGED <<handle, pc, out>>

\* an array branch that stops at an array that is its own element
InferArrayGuarded ==
    /\ pc = "getSchemaForType"
    /\ isArray(cur)
    /\ depth < MaxFrames
    /\ IF getArrayElementType(cur) = cur
       THEN /\ pc' = "returned"
            /\ out' = Wrap(depth, [type |-> "array"])
            /\ UNCHANGED <<handle, cur, depth>>
       ELSE /\ cur' = getArrayElementType(cur)
            /\ depth' = depth + 1
            /\ UNCHANGED <<handle, pc, out>>

\* lines 276-282: the array branch recurses into the element type
InferArray ==
    /\ pc = "getSchemaForType"
    /\ isArray(cur)
    /\ depth < MaxFrames
    /\ cur' = getArrayElementType(cur)
    /\ depth' = depth + 1
    /\ UNCHANGED <<handle, pc, out>>

\* the recursion outgrows the call stack
InferOverflow ==
    /\ pc = "getSchemaForType"
    /\ isArray(cur)
    /\ depth = MaxFrames
    /\ pc' = "thrown"
    /\ out' = [error |-> "RangeError"]
    /\ UNCHANGED <<handle, cur, depth>>

\* lines 284-318: a non-array frame returns, and so does every waiting frame
InferReturn ==
    /\ pc = "getSchemaForType"
    /\ ~isArray(cur)
    /\ out' = Wrap(depth, BaseSchema(cur))
    /\ pc' = "returned"
    /\ UNCHANGED <<handle, cur, depth>>

\* a caller asks getTypeString(handle)
GetTypeStringCall ==
    /\ pc = "idle"
    /\ out' = [type |-> getTypeString(handle)]
    /\ pc' = "kind"
    /\ UNCHANGED <<handle, cur, depth>>

----------------------------------------------------------------------------
(* Type resolution and registration: extractTypeSchema *)

EmptyMap == <<>>
Has(r, f) == f \in DOMAIN r
\* a field that is present and not the empty string
Truthy(r, f) == IF Has(r, f) THEN r[f] # "" ELSE FALSE

NotDeclared == [kind |-> "none"]
Throws == [kind |-> "throw"]
Alias(t) == [kind |-> "alias", type |-> t]

\* sourceFile.getTypeAlias(typeName)
getTypeAlias(sourceFile, typeName) == sourceFile[typeName]

\* the loop without its break: the last declaring source wins
RECURSIVE FindLastTypeAlias(_, _, _)
FindLastTypeAlias(sourceFiles, typeName, i) ==
    IF i > Len(sourceFiles)
    THEN [found |-> FALSE, lookups |-> i - 1]
    ELSE LET typeAlias == getTypeAlias(sourceFiles[i], typeName)
             later == FindLastTypeAlias(sourceFiles, typeName, i + 1)
         IN  IF typeAlias.kind = "alias" /\ ~later.found
             THEN [found |-> TRUE, type |-> typeAlias.type, index |-> i,
                   lookups |-> later.lookups]
             ELSE later

\* the loop without its try/catch: a lookup that throws ends the scan
RECURSIVE FindTypeAliasRethrow(_, _, _)
FindTypeAliasRethrow(sourceFiles, typeName, i) ==
    IF i > Len(sourceFiles)
    THEN [found |-> FALSE, lookups |-> i - 1]
    ELSE LET typeAlias == getTypeAlias(sourceFiles[i], typeName)
         IN  IF typeAlias.kind = "throw"
             THEN [found |-> FALSE, lookups |-> i]
             ELSE IF typeAlias.kind = "alias"
             THEN [found |-> TRUE, type |-> typeAlias.type, index |-> i,
                   lookups |-> i]
             ELSE FindTypeAliasRethrow(sourceFiles, typeName, i + 1)

\* lines 239-248: the loop over the source files from index i on; lookups counts
\* the getTypeAlias calls made
RECURSIVE FindTypeAlias(_, _, _)
FindTypeAlias(sourceFiles, typeName, i) ==
    IF i > Len(sourceFiles)
    THEN [found |-> FALSE, lookups |-> i - 1]
    ELSE LET typeAlias == getTypeAlias(sourceFiles[i], typeName)
         IN  IF typeAlias.kind = "throw"
             THEN FindTypeAlias(sourceFiles, typeName, i + 1)
             ELSE IF typeAlias.kind = "alias"
             THEN [found |-> TRUE, type |-> typeAlias.type, index |-> i,
                   lookups |-> i]
             ELSE FindTypeAlias(sourceFiles, typeName, i + 1)

TypeNotFound(typeName) ==
    [name |-> "Error",
     message |-> <<"Type '", typeName, "' not found in any source files">>]

\* registration that starts the registry afresh
RegisterAlone(registry, typeName, schema) == Assign(EmptyMap, typeName, schema)

\* registration that unwraps an array to its element's schema
RegisterElement(registry, typeName, schema) ==
    Assign(registry, typeName,
           IF schema.type = "array" THEN schema.items ELSE schema)

\* line 259: this.spec.components.schemas[typeName] = schema
Register(registry, typeName, schema) == Assign(registry, typeName, schema)

\* a non-array type handed back as its bare kind
ReturnedKindOnly(tsType, schema) ==
    IF isArray(tsType)
    THEN ArraySchema(getSchemaForType(getArrayElementType(tsType)))
    ELSE [type |-> getTypeString(tsType)]

\* lines 262-270: what extractTypeSchema hands back to its caller
Returned(tsType, schema) ==
    IF isArray(tsType)
    THEN ArraySchema(getSchemaForType(getArrayElementType(tsType)))
    ELSE schema

\* extractTypeSchema that reserves the registry entry before the lookup
extractTypeSchemaReserving(registry, typeName) ==
    LET hit == FindTypeAlias(sources, typeName, 1)
    IN  IF ~hit.found
        THEN [ok |-> FALSE, typeName |-> typeName, error |-> TypeNotFound(typeName),
              lookups |-> hit.lookups,
              schemas |-> Register(registry, typeName, EmptyMap)]
        ELSE LET tsType == hit.type
                 schema == getSchemaForType(tsType)
             IN  [ok |-> TRUE, typeName |-> typeName, tsType |-> tsType,
                  index |-> hit.index, lookups |-> hit.lookups,
                  computed |-> schema,
                  returned |-> Returned(tsType, schema),
                  schemas |-> Register(registry, typeName, schema)]

\* extractTypeSchema without its registry write
extractTypeSchemaUnregistered(registry, typeName) ==
    LET hit == FindTypeAlias(sources, typeName, 1)
    IN  IF ~hit.found
        THEN [ok |-> FALSE, typeName |-> typeName, error |-> TypeNotFound(typeName),
              lookups |-> hit.lookups, schemas |-> registry]
        ELSE LET tsType == hit.type
                 schema == getSchemaForType(tsType)
             IN  [ok |-> TRUE, typeName |-> typeName, tsType |-> tsType,
                  index |-> hit.index, lookups |-> hit.lookups,
                  computed |-> schema,
                  returned |-> Returned(tsType, schema),
                  schemas |-> registry]

\* extractTypeSchema(typeName) against the registry as it is; the outcome carries
\* the registry as the call leaves it
extractTypeSchema(registry, typeName) ==
    LET hit == FindTypeAlias(sources, typeName, 1)
    IN  IF ~hit.found
        THEN [ok |-> FALSE, typeName |-> typeName, error |-> TypeNotFound(typeName),
              lookups |-> hit.lookups, schemas |-> registry]
        ELSE LET tsType == hit.type
                 schema == getSchemaForType(tsType)
             IN  [ok |-> TRUE, typeName |-> typeName, tsType |-> tsType,
                  index |-> hit.index, lookups |-> hit.lookups,
                  computed |-> schema,
                  returned |-> Returned(tsType, schema),
                  schemas |-> Register(registry, typeName, schema)]

\* what a call leaves in the trace
TraceEntry(ex) == [f \in DOMAIN ex \ {"schemas"} |-> ex[f]]

----------------------------------------------------------------------------
(* addRoute *)

\* first index >= i of path holding "}", or 0
RECURSIVE IndexOfClose(_, _)
IndexOfClose(path, i) ==
    IF i > Len(path) THEN 0
    ELSE IF path[i] = "}" THEN i
    ELSE IndexOfClose(path, i + 1)

\* path.match(/{([^}]+)}/g) from index i on, each match without its braces
RECURSIVE MatchPlaceholders(_, _)
MatchPlaceholders(path, i) ==
    IF i > Len(path) THEN <<>>
    ELSE IF path[i] # "{" THEN MatchPlaceholders(path, i + 1)
    ELSE LET j == IndexOfClose(path, i + 1)
         IN  IF j = 0 THEN <<>>
             ELSE IF j = i + 1 THEN MatchPlaceholders(path, i + 1)
             ELSE <<SubSeq(path, i + 1, j - 1)>> \o MatchPlaceholders(path, j + 1)

\* lines 114-117
extractPathParameters(path) == MatchPlaceholders(path, 1)

\* the description of an operation written on Object.prototype, as a text
WrittenDescription(operation) ==
    IF operation.description = "" THEN <<>> ELSE <<operation.description>>

\* route.parameters?.[paramName]?.description: the lookup of paramName goes
\* through the prototype chain of route.parameters. A key of its own shadows the
\* inherited ones; a method of Object.prototype and Object.prototype itself have
\* no description; an operation an earlier addRoute wrote on Object.prototype has
\* the description of its route
LookupDescription(route, inh, paramName) ==
    IF ~Has(route, "parameters") THEN <<>>
    ELSE IF paramName \in DOMAIN route.parameters
    THEN IF ~Has(route.parameters[paramName], "description") THEN <<>>
         ELSE route.parameters[paramName].description
    ELSE IF paramName \in InheritedPaths THEN <<>>
    ELSE IF paramName \in WrittenPaths(inh)
    THEN WrittenDescription(inh[ProtoPath][MethodSpelt(paramName)])
    ELSE <<>>

\* route.parameters?.[paramName]?.description || `${paramName} parameter`
PathParamDescription(route, inh, paramName) ==
    IF LookupDescription(route, inh, paramName) # <<>>
    THEN LookupDescription(route, inh, paramName)
    ELSE paramName \o <<" parameter">>

\* a field copied from r when r has it
Copy(r, from, to) == IF Has(r, from) THEN (to :> r[from]) ELSE EmptyMap

PathParameters(route, inh) ==
    LET pathParams == extractPathParameters(route.path)
    IN  [i \in 1..Len(pathParams) |->
            [name |-> pathParams[i], in |-> "path", required |-> TRUE,
             schema |-> [type |-> "string"],
             description |-> PathParamDescription(route, inh, pathParams[i])]]

Digits == [c \in {"0", "1", "2", "3", "4", "5", "6", "7", "8", "9"} |->
               CASE c = "0" -> 0 [] c = "1" -> 1 [] c = "2" -> 2 [] c = "3" -> 3
                 [] c = "4" -> 4 [] c = "5" -> 5 [] c = "6" -> 6 [] c = "7" -> 7
                 [] c = "8" -> 8 [] c = "9" -> 9]

\* a before b, for two digit strings of the same length
RECURSIVE DigitsBefore(_, _, _)
DigitsBefore(a, b, i) ==
    IF i > Len(a) THEN FALSE
    ELSE IF Digits[a[i]] < Digits[b[i]] THEN TRUE
    ELSE IF Digits[a[i]] > Digits[b[i]] THEN FALSE
    ELSE DigitsBefore(a, b, i + 1)

\* a < b as numbers, for two digit strings without leading zeros
IndexBefore(a, b) ==
    IF Len(a) # Len(b) THEN Len(a) < Len(b) ELSE DigitsBefore(a, b, 1)

\* 2^32 - 2, the largest array index
MaxArrayIndex == <<"4", "2", "9", "4", "9", "6", "7", "2", "9", "4">>

\* a property name that is an array index: the canonical spelling of an integer
\* from 0 to 2^32 - 2
IsArrayIndex(name) ==
    /\ name # <<>>
    /\ \A i \in DOMAIN name : name[i] \in DOMAIN Digits
    /\ (Len(name) > 1 => name[1] # "0")
    /\ ~IndexBefore(MaxArrayIndex, name)

\* Object.entries(obj) for the object whose properties were created in the order
\* of entries: the array indices in ascending numeric order, then the other
\* names in creation order
ObjectEntries(entries) ==
    LET idx == { i \in DOMAIN entries : IsArrayIndex(entries[i].name) }
        rank(i) == Cardinality({ j \in idx :
                                    IndexBefore(entries[j].name, entries[i].name) })
    IN  [k \in 1..Cardinality(idx) |-> entries[CHOOSE i \in idx : rank(i) = k - 1]]
            \o SelectSeq(entries, LAMBDA e : ~IsArrayIndex(e.name))

\* lines 150-160: one parameter per entry of Object.entries(route.queryParameters);
\* route.queryParameters lists the properties in the order they were created
QueryParameters(route) ==
    IF ~Has(route, "queryParameters") THEN <<>>
    ELSE [i \in 1..Len(route.queryParameters) |->
            LET name == ObjectEntries(route.queryParameters)[i].name
                param == ObjectEntries(route.queryParameters)[i].param
            IN  [name |-> name, in |-> "query", required |-> param.required,
                 schema |-> param.schema]
                @@ Copy(param, "description", "description")]

RequiredOrFalse(header) == IF Has(header, "required") THEN header.required ELSE FALSE

HeaderParameters(route) ==
    IF ~Has(route, "headers") THEN <<>>
    ELSE IF ~Has(route.headers, "request") THEN <<>>
    ELSE [i \in 1..Len(route.headers.request) |->
            LET header == route.headers.request[i]
            IN  [name |-> header.name, in |-> "header",
                 required |-> RequiredOrFalse(header), schema |-> header.schema]
                @@ Copy(header, "description", "description")]

Parameters(route, inh) ==
    PathParameters(route, inh) \o QueryParameters(route) \o HeaderParameters(route)

\* headers[header.name] = {...} for the first n response headers
RECURSIVE ResponseHeaders(_, _)
ResponseHeaders(hs, n) ==
    IF n = 0 THEN EmptyMap
    ELSE Assign(ResponseHeaders(hs, n - 1), hs[n].name,
                [schema |-> hs[n].schema, required |-> RequiredOrFalse(hs[n])]
                    @@ Copy(hs[n], "description", "description"))

ResponseObj(route, response, schema) ==
    [description |-> response.description,
     content |-> ("application/json" :> [schema |-> schema])]
    @@ (IF ~Has(route, "headers") THEN EmptyMap
        ELSE IF ~Has(route.headers, "response") THEN EmptyMap
        ELSE [headers |-> ResponseHeaders(route.headers.response,
                                          Len(route.headers.response))])

\* lines 126-182: the operation before its request body and responses
OperationHead(route, inh) ==
    [description |-> IF Truthy(route, "description") THEN route.description ELSE "",
     responses |-> EmptyMap]
    @@ (IF Len(Parameters(route, inh)) > 0
        THEN [parameters |-> Parameters(route, inh)] ELSE EmptyMap)
    @@ (IF Has(route, "security")
        THEN [security |-> [i \in 1..Len(route.security) |->
                               (route.security[i] :> <<>>)]]
        ELSE EmptyMap)

\* the call ex threw inside addRoute: the state addRoute is left in, with the
\* registry as ex left it
Thrown(st, ex) ==
    [st EXCEPT !.ok = FALSE, !.schemas = ex.schemas,
               !.trace = Append(@, TraceEntry(ex))]
    @@ [error |-> ex.error]

\* lines 186-192 with ex the outcome of extractTypeSchema(route.requestType)
RequestBodySet(st, ex) ==
    IF ~ex.ok THEN Thrown(st, ex)
    ELSE [st EXCEPT
             !.operation = [requestBody |->
                 [content |-> ("application/json" :> [schema |-> ex.returned])]] @@ @,
             !.schemas = ex.schemas,
             !.trace = Append(@, TraceEntry(ex))]

\* lines 184-193 on the state st = [ok, operation, schemas, trace]
WithRequestBody(route, st) ==
    IF ~Truthy(route, "requestType") THEN st
    ELSE RequestBodySet(st, extractTypeSchema(st.schemas, route.requestType))

\* line 219 on top of the responses set so far
SetResponse(st, route, response, schema) ==
    [st EXCEPT !.operation.responses =
        (ToString(response.statusCode) :> ResponseObj(route, response, schema)) @@ @]

\* lines 197-219 with ex the outcome of extractTypeSchema(response.type)
TypedResponseSet(st, route, response, ex) ==
    IF ~ex.ok THEN Thrown(st, ex)
    ELSE [SetResponse(st, route, response, ex.returned)
             EXCEPT !.schemas = ex.schemas,
                    !.trace = Append(@, TraceEntry(ex))]

\* a response that reuses the registry entry of a name registered before
ResponseSetCached(st, route, response) ==
    IF ~Truthy(response, "type") THEN SetResponse(st, route, response, EmptyMap)
    ELSE IF response.type \in DOMAIN st.schemas
    THEN SetResponse(st, route, response, st.schemas[response.type])
    ELSE TypedResponseSet(st, route, response,
                          extractTypeSchema(st.schemas, response.type))

\* lines 197-219 for one response
ResponseSet(st, route, response) ==
    IF ~Truthy(response, "type") THEN SetResponse(st, route, response, EmptyMap)
    ELSE TypedResponseSet(st, route, response,
                          extractTypeSchema(st.schemas, response.type))

\* lines 196-220: route.responses.forEach from index i on
RECURSIVE WithResponses(_, _, _)
WithResponses(route, i, st) ==
    IF ~st.ok THEN st
    ELSE IF i > Len(route.responses) THEN st
    ELSE WithResponses(route, i + 1, ResponseSet(st, route, route.responses[i]))

\* !this.spec.paths[route.path] is false: the lookup goes through the prototype
\* chain and finds a path item of paths, else a property Object.prototype had
\* from the start, else an operation line 222 has written on Object.prototype;
\* each of them is truthy
PathFound(pathMap, inh, path) ==
    \/ path \in DOMAIN pathMap
    \/ path \in InheritedPaths
    \/ path \in WrittenPaths(inh)

\* lines 121-123: create the path item if the lookup finds nothing
EnsurePath(pathMap, inh, path) ==
    IF PathFound(pathMap, inh, path) THEN pathMap ELSE (path :> EmptyMap) @@ pathMap

\* an operation built on top of the one already installed: its parameters are
\* pushed after the old ones
InstallAppending(heap, route, operation) ==
    IF route.path \in DOMAIN heap.paths
    THEN [heap EXCEPT !.paths[route.path] =
             (route.method :>
                 IF route.method \notin DOMAIN heap.paths[route.path] THEN operation
                 ELSE IF "parameters" \notin DOMAIN heap.paths[route.path][route.method]
                 THEN operation
                 ELSE IF "parameters" \notin DOMAIN operation THEN operation
                 ELSE [operation EXCEPT !.parameters =
                           heap.paths[route.path][route.method].parameters \o @]) @@ @]
    ELSE IF route.path \in InheritedPaths
    THEN [heap EXCEPT !.inherited[route.path] = (route.method :> operation) @@ @]
    ELSE [heap EXCEPT !.inherited[ProtoPath][MethodSpelt(route.path)] =
             (route.method :> operation) @@ @]

\* line 222: pathItem[route.method] = operation, on heap = [paths, inherited].
\* pathItem is what line 125 found: the path item of paths, or else the method of
\* Object.prototype (Object.prototype itself for "__proto__") of that name, or
\* else the operation written on Object.prototype under that name; the operation
\* becomes a key of that object
Install(heap, route, operation) ==
    IF route.path \in DOMAIN heap.paths
    THEN [heap EXCEPT !.paths[route.path] = (route.method :> operation) @@ @]
    ELSE IF route.path \in InheritedPaths
    THEN [heap EXCEPT !.inherited[route.path] = (route.method :> operation) @@ @]
    ELSE [heap EXCEPT !.inherited[ProtoPath][MethodSpelt(route.path)] =
             (route.method :> operation) @@ @]

\* an addRoute that catches the error and installs what it has built
FinishedSwallowing(heap, route, done) ==
    [ok |-> TRUE, paths |-> Install(heap, route, done.operation).paths,
     inherited |-> Install(heap, route, done.operation).inherited,
     schemas |-> done.schemas, trace |-> done.trace]

\* lines 222-223, or the throw that skips them; done is the state after the
\* request body and the responses
Finished(heap, route, done) ==
    IF done.ok
    THEN [ok |-> TRUE, paths |-> Install(heap, route, done.operation).paths,
          inherited |-> Install(heap, route, done.operation).inherited,
          schemas |-> done.schemas, trace |-> done.trace]
    ELSE [ok |-> FALSE, error |-> done.error, paths |-> heap.paths,
          inherited |-> heap.inherited,
          schemas |-> done.schemas, trace |-> done.trace]

\* lines 126-129: the state addRoute starts its operation from
Started(doc, route) ==
    [ok |-> TRUE, operation |-> OperationHead(route, doc.inherited),
     schemas |-> doc.schemas, trace |-> <<>>]

\* addRoute(route) on doc = [paths, schemas, inherited]; the outcome says
\* whether the call returned or threw and what it left behind
addRoute(doc, route) ==
    Finished([paths |-> EnsurePath(doc.paths, doc.inherited, route.path),
              inherited |-> doc.inherited],
             route,
             WithResponses(route, 1, WithRequestBody(route, Started(doc, route))))

\* the outcome r of one addRoute after the outcome acc of the routes before it
Accumulate(acc, r) == [r EXCEPT !.trace = acc.trace \o @]

\* the loop taking the routes last to first
RECURSIVE addRoutesBackwards(_, _, _)
addRoutesBackwards(acc, routes, i) ==
    IF ~acc.ok THEN acc
    ELSE IF i > Len(routes) THEN acc
    ELSE addRoutesBackwards(
             Accumulate(acc, addRoute([paths |-> acc.paths, schemas |-> acc.schemas,
                                       inherited |-> acc.inherited],
                                      routes[Len(routes) + 1 - i])),
             routes, i + 1)

\* lines 231-233: the loop of addRoutes from index i on; acc is the outcome so far
RECURSIVE addRoutesFrom(_, _, _)
addRoutesFrom(acc, routes, i) ==
    IF ~acc.ok THEN acc
    ELSE IF i > Len(routes) THEN acc
    ELSE addRoutesFrom(
             Accumulate(acc, addRoute([paths |-> acc.paths, schemas |-> acc.schemas,
                                       inherited |-> acc.inherited],
                                      routes[i])),
             routes, i + 1)

\* addRoutes(arg): arg = [isArray, items]
addRoutes(doc, arg) ==
    IF ~arg.isArray
    THEN [ok |-> FALSE,
          error |-> [name |-> "Error", message |-> <<"Routes must be an array">>],
          paths |-> doc.paths, schemas |-> doc.schemas,
          inherited |-> doc.inherited, trace |-> <<>>]
    ELSE addRoutesFrom([ok |-> TRUE, paths |-> doc.paths, schemas |-> doc.schemas,
                        inherited |-> doc.inherited, trace |-> <<>>],
                       arg.items, 1)

----------------------------------------------------------------------------
(* The project the builder is created over: types and source files *)

ProjectNames ==
    {"number", "string", "optionalString", "UserType", "User", "UserQuery",
     "CreateUserRequest", "DeleteUserRequest", "Post", "ErrorResponse",
     "UserAlt", "Profile", "admin", "user", "trial", "guest"}
\* the types arrays are declared of
ElementNames == {"number", "string", "User", "UserAlt"}
ProjectIds ==
    { TypeId(n, 0) : n \in ProjectNames }
        \cup { TypeId(n, d) : n \in ElementNames, d \in 1..MaxDepth }

ProjectDescriptor(id) ==
    IF id.dim > 0 THEN ArrayOf(TypeId(id.name, id.dim - 1))
    ELSE CASE id.name = "number" -> Plain({"isNumber"})
           [] id.name = "string" -> Plain({"isString"})
           \* string | undefined, the type of an optional string property: a
           \* union for which none of the predicates holds
           [] id.name = "optionalString" -> Plain({})
           [] id.name = "UserType" ->
                EnumOf(<<TypeId("admin", 0), TypeId("user", 0),
                         TypeId("trial", 0), TypeId("guest", 0)>>)
           [] id.name = "User" ->
                ObjectOf(<<Prop("id", TypeId("number", 0)),
                           Prop("name", TypeId("string", 0)),
                           Prop("email", TypeId("string", 0)),
                           Prop("type", TypeId("UserType", 0))>>)
           [] id.name = "UserQuery" ->
                ObjectOf(<<Prop("name", TypeId("optionalString", 0)),
                           Prop("email", TypeId("optionalString", 0))>>)
           [] id.name = "CreateUserRequest" ->
                ObjectOf(<<Prop("name", TypeId("string", 0)),
                           Prop("email", TypeId("string", 0))>>)
           [] id.name = "DeleteUserRequest" ->
                ObjectOf(<<Prop("userId", TypeId("number", 0))>>)
           [] id.name = "Post" ->
                ObjectOf(<<Prop("id", TypeId("number", 0)),
                           Prop("userId", TypeId("number", 0)),
                           Prop("title", TypeId("string", 0)),
                           Prop("content", TypeId("string", 0))>>)
           [] id.name = "ErrorResponse" ->
                ObjectOf(<<Prop("code", TypeId("number", 0)),
                           Prop("message", TypeId("string", 0))>>)
           [] id.name = "UserAlt" ->
                ObjectOf(<<Prop("id", TypeId("string", 0))>>)
           [] id.name = "Profile" ->
                ObjectOf(<<Prop("owner", TypeId("User", 0)),
                           Prop("tags", TypeId("string", 1)),
                           Prop("friends", TypeId("User", 1)),
                           Prop(ProtoKey, TypeId("string", 0))>>)
           [] id.name = "admin" -> StringLiteral("admin")
           [] id.name = "user" -> StringLiteral("user")
           [] id.name = "trial" -> StringLiteral("trial")
           [] id.name = "guest" -> StringLiteral("guest")

ProjectTypes == [id \in ProjectIds |-> ProjectDescriptor(id)]

\* the names looked up, all ordinary identifiers; UserType is declared as an enum
\* and no file has a type alias of that name, Ghost is declared nowhere
AliasNames ==
    {"User", "UserList", "UserQuery", "CreateUserRequest", "DeleteUserRequest",
     "Post", "ErrorResponse", "UserType", "Role", "Profile", "Grid", "Ghost"}

\* the type aliases of the test fixture; its enum UserType is not a type alias,
\* so getTypeAlias("UserType") finds nothing
FileTypes ==
    [n \in AliasNames |->
        CASE n = "User" -> Alias(TypeId("User", 0))
          [] n = "UserList" -> Alias(TypeId("User", 1))
          [] n = "UserQuery" -> Alias(TypeId("UserQuery", 0))
          [] n = "CreateUserRequest" -> Alias(TypeId("CreateUserRequest", 0))
          [] n = "DeleteUserRequest" -> Alias(TypeId("DeleteUserRequest", 0))
          [] n = "Post" -> Alias(TypeId("Post", 0))
          [] n = "ErrorResponse" -> Alias(TypeId("ErrorResponse", 0))
          [] OTHER -> NotDeclared]

\* a second file that declares User and UserList with other shapes, an alias
\* Role of the enum, an object of objects and arrays, and a table of numbers
FileOther ==
    [n \in AliasNames |->
        CASE n = "User" -> Alias(TypeId("UserAlt", 0))
          [] n = "UserList" -> Alias(TypeId("UserAlt", 1))
          [] n = "Role" -> Alias(TypeId("UserType", 0))
          [] n = "Profile" -> Alias(TypeId("Profile", 0))
          [] n = "Grid" -> Alias(TypeId("number", MaxDepth))
          [] OTHER -> NotDeclared]

\* a file every lookup on which throws
FileBroken == [n \in AliasNames |-> Throws]

SourceFiles == {FileTypes, FileOther, FileBroken}
Projects == [1..NumSources -> SourceFiles]

----------------------------------------------------------------------------
(* Arguments of the builder calls *)

PathUsers == <<"/", "u">>
PathUser == <<"/", "u", "/", "{", "i", "d", "}">>

Response(code, d) == [statusCode |-> code, description |-> d]
TypedResponse(code, d, t) == [statusCode |-> code, description |-> d, type |-> t]

RouteList ==
    [path |-> PathUsers, method |-> "get", description |-> "List users",
     responses |-> <<TypedResponse(200, "Success", "UserList")>>]

RouteCreate ==
    [path |-> PathUsers, method |-> "post", description |-> "Create user",
     requestType |-> "User",
     security |-> <<"bearerAuth">>,
     headers |-> [request |-> <<[name |-> "X-API-Version", required |-> TRUE,
                                 schema |-> [type |-> "string"],
                                 description |-> "API Version"]>>,
                  response |-> <<[name |-> "X-Rate-Limit",
                                  schema |-> [type |-> "integer"]]>>],
     responses |-> <<TypedResponse(201, "Created", "User")>>]

RouteGet ==
    [path |-> PathUser, method |-> "get", description |-> "Get user",
     parameters |-> (<<"i", "d">> :> [description |-> <<"The ID of the user">>]),
     responses |-> <<TypedResponse(200, "Success", "User"),
                     TypedResponse(404, "Not found", "Ghost")>>]

RouteProfile ==
    [path |-> PathUser, method |-> "get",
     queryParameters |-> <<[name |-> <<"p", "a", "g", "e">>,
                            param |-> [required |-> FALSE,
                                       schema |-> [type |-> "integer"],
                                       description |-> "Page number"]]>>,
     responses |-> <<TypedResponse(200, "Success", "Profile")>>]

RouteGhost ==
    [path |-> PathUsers, method |-> "get", requestType |-> "Ghost",
     responses |-> <<TypedResponse(200, "Success", "User")>>]

RoutePlain ==
    [path |-> PathUsers, method |-> "get", description |-> "",
     responses |-> <<Response(204, "No Content")>>]

RouteGrid ==
    [path |-> PathUser, method |-> "post", requestType |-> "Role",
     headers |-> [response |-> <<[name |-> "X-Rate-Limit",
                                  schema |-> [type |-> "integer"]],
                                 [name |-> ProtoKey,
                                  schema |-> [type |-> "string"]]>>],
     responses |-> <<TypedResponse(200, "Success", "Grid"),
                     TypedResponse(200, "Success", "User")>>]

PathPost == <<"/", "{", "i", "d", "}", "/", "{", "n", "}">>

RoutePost ==
    [path |-> PathPost, method |-> "get", description |-> "Get user post",
     parameters |-> (<<"i", "d">> :> [description |-> <<>>])
                        @@ (<<"n">> :> [description |-> <<"The ID of the post">>]),
     queryParameters |-> <<[name |-> <<"p", "a", "g", "e">>,
                            param |-> [required |-> FALSE,
                                       schema |-> [type |-> "integer"]]]>>,
     headers |-> [request |-> <<[name |-> "X-API-Version",
                                 schema |-> [type |-> "string"]]>>],
     responses |-> <<Response(200, "Success")>>]

\* a route whose path names Object.prototype
RouteProto ==
    [path |-> ProtoPath, method |-> "get", description |-> "D",
     responses |-> <<Response(200, "Success")>>]

PathParam ==
    <<"/", "{", "g", "e", "t", "}", "/", "{", "v", "a", "l", "u", "e", "O", "f", "}">>

\* a route whose placeholders are spelled like a method and like a method of
\* Object.prototype, with parameters that describes neither, and with query
\* parameters created in the order b, 10, 9
RouteParam ==
    [path |-> PathParam, method |-> "post",
     parameters |-> (<<"i", "d">> :> [description |-> <<"The ID of the user">>]),
     queryParameters |-> <<[name |-> <<"b">>,
                            param |-> [required |-> FALSE,
                                       schema |-> [type |-> "string"]]],
                           [name |-> <<"1", "0">>,
                            param |-> [required |-> FALSE,
                                       schema |-> [type |-> "string"]]],
                           [name |-> <<"9">>,
                            param |-> [required |-> TRUE,
                                       schema |-> [type |-> "string"]]]>>,
     responses |-> <<Response(200, "Success")>>]

\* a route whose path is spelled like a method
RouteNamed ==
    [path |-> MethodSpelling["get"], method |-> "post", description |-> "Named",
     responses |-> <<Response(200, "Success")>>]

Routes ==
    {RouteList, RouteCreate, RouteGet, RouteProfile, RouteGhost, RoutePlain,
     RouteGrid, RoutePost, RouteProto, RouteParam, RouteNamed}

BatchRoutes == {RouteList, RouteCreate, RouteGet}
\* the arrays of up to MaxBatch distinct routes
Batches ==
    { b \in UNION { [1..n -> BatchRoutes] : n \in 0..MaxBatch } :
          \A i, j \in DOMAIN b : i # j => b[i] # b[j] }
RoutesArgs ==
    { [isArray |-> TRUE, items |-> b] : b \in Batches }
        \cup {[isArray |-> FALSE, items |-> <<>>]}

Servers ==
    {[url |-> "https://api.example.com/v1", description |-> "Production server"],
     [url |-> "https://staging-api.example.com/v1"]}

SchemeNames == {"bearerAuth", ProtoKey}
Schemes == {[type |-> "http", scheme |-> "bearer"], [type |-> "apiKey"]}

----------------------------------------------------------------------------
(* The builder's public calls *)

Document == [paths |-> paths, schemas |-> schemas, inherited |-> inherited]

Outcome(op, arg, r) ==
    IF r.ok THEN [op |-> op, arg |-> arg, status |-> "ok"]
    ELSE [op |-> op, arg |-> arg, status |-> "error", error |-> r.error]

AddRoute(route) ==
    /\ calls < MaxCalls
    /\ LET r == addRoute(Document, route)
       IN  /\ paths' = r.paths
           /\ schemas' = r.schemas
           /\ inherited' = r.inherited
           /\ trace' = r.trace
           /\ result' = Outcome("addRoute", route, r)
    /\ calls' = calls + 1
    /\ UNCHANGED <<securitySchemes, servers>>

AddRoutes(arg) ==
    /\ calls < MaxCalls
    /\ LET r == addRoutes(Document, arg)
       IN  /\ paths' = r.paths
           /\ schemas' = r.schemas
           /\ inherited' = r.inherited
           /\ trace' = r.trace
           /\ result' = Outcome("addRoutes", arg, r)
    /\ calls' = calls + 1
    /\ UNCHANGED <<securitySchemes, servers>>

\* a push that skips a server the list already holds
AddServerOnce(server) ==
    /\ calls < MaxCalls
    /\ servers' = IF \E i \in DOMAIN servers : servers[i] = server
                  THEN servers ELSE Append(servers, server)
    /\ result' = [op |-> "addServer", arg |-> server, status |-> "ok"]
    /\ trace' = <<>>
    /\ calls' = calls + 1
    /\ UNCHANGED <<paths, schemas, securitySchemes, inherited>>

\* lines 106-112
AddServer(server) ==
    /\ calls < MaxCalls
    /\ servers' = Append(servers, server)
    /\ result' = [op |-> "addServer", arg |-> server, status |-> "ok"]
    /\ trace' = <<>>
    /\ calls' = calls + 1
    /\ UNCHANGED <<paths, schemas, securitySchemes, inherited>>

\* lines 92-104
AddSecurityScheme(name, scheme) ==
    /\ calls < MaxCalls
    /\ securitySchemes' = Assign(securitySchemes, name, scheme)
    /\ result' = [op |-> "addSecurityScheme", arg |-> <<name, scheme>>, status |-> "ok"]
    /\ trace' = <<>>
    /\ calls' = calls + 1
    /\ UNCHANGED <<paths, schemas, servers, inherited>>

----------------------------------------------------------------------------
(* Types the inference specification draws its argument from *)

LeafShapes ==
    { [props |-> <<>>, union |-> <<>>],
      [props |-> <<Prop("id", TypeId("number", 0))>>,
       union |-> <<TypeId("lit1", 0), TypeId("lit2", 0)>>],
      [props |-> <<Prop("id", TypeId("number", 0)),
                   Prop("owner", TypeId("Inner", 0)),
                   Prop("tags", TypeId("string", 1)),
                   Prop("role", TypeId("Role", 0))>>,
       union |-> <<>>],
      [props |-> <<>>,
       union |-> <<TypeId("user", 0), TypeId("admin", 0), TypeId("guest", 0)>>] }

InferNames ==
    {"T", "O", "Loop", "number", "string", "Inner", "Role",
     "admin", "user", "guest", "lit1", "lit2"}
InferIds ==
    { TypeId(n, 0) : n \in InferNames }
        \cup { TypeId(n, d) : n \in {"T", "O", "string"}, d \in 1..MaxDepth }

\* T is the type under study: any predicates p and one of the leaf shapes; an
\* array of T answers the predicates of an array and those of T
InferDescriptor(id, p, shape) ==
    IF id.name = "Loop" THEN ArrayOf(id)
    ELSE IF id.dim > 0 /\ id.name = "T"
    THEN Descriptor({"isArray", "isObject"} \cup p, TypeId(id.name, id.dim - 1),
                    shape.union, shape.props, NoLiteral)
    ELSE IF id.dim > 0 THEN ArrayOf(TypeId(id.name, id.dim - 1))
    ELSE CASE id.name = "T" ->
                Descriptor(p, NoType, shape.union, shape.props, NoLiteral)
           [] id.name = "O" ->
                ObjectOf(<<Prop("a", TypeId("T", 0)), Prop("b", TypeId("T", 1)),
                           Prop("c", TypeId("Inner", 0))>>)
           [] id.name = "number" -> Plain({"isNumber"})
           [] id.name = "string" -> Plain({"isString"})
           [] id.name = "Inner" ->
                ObjectOf(<<Prop("deep", TypeId("O", 0))>>)
           [] id.name = "Role" ->
                EnumOf(<<TypeId("admin", 0), TypeId("user", 0)>>)
           [] id.name = "admin" -> StringLiteral("admin")
           [] id.name = "user" -> StringLiteral("user")
           [] id.name = "guest" -> StringLiteral("guest")
           [] id.name = "lit1" -> NumberLiteral(1)
           [] id.name = "lit2" -> NumberLiteral(2)

InferTable(p, shape) == [id \in InferIds |-> InferDescriptor(id, p, shape)]

InferHandles ==
    { TypeId(n, d) : n \in {"T", "O"}, d \in 0..MaxDepth } \cup {TypeId("Loop", 0)}

\* lines 27-39: the document the constructor leaves
EmptyDoc ==
    /\ paths = EmptyMap
    /\ schemas = EmptyMap
    /\ securitySchemes = EmptyMap
    /\ servers = <<>>
    /\ result = [op |-> "create", status |-> "ok"]
    /\ trace = <<>>
    /\ calls = 0
    /\ inherited = NothingWritten

InferIdle ==
    /\ pc = "idle"
    /\ cur = NoType
    /\ depth = 0
    /\ out = [none |-> TRUE]

InitInfer ==
    /\ \E p \in SUBSET Predicates, shape \in LeafShapes :
           types = InferTable(p, shape)
    /\ sources = <<>>
    /\ handle \in InferHandles
    /\ InferIdle
    /\ EmptyDoc

NextInfer ==
    \/ (InferCall /\ UNCHANGED <<types, sources>> /\ UNCHANGED docVars)
    \/ (InferArray /\ UNCHANGED <<types, sources>> /\ UNCHANGED docVars)
    \/ (InferOverflow /\ UNCHANGED <<types, sources>> /\ UNCHANGED docVars)
    \/ (InferReturn /\ UNCHANGED <<types, sources>> /\ UNCHANGED docVars)
    \/ (GetTypeStringCall /\ UNCHANGED <<types, sources>> /\ UNCHANGED docVars)

SpecInfer == InitInfer /\ [][NextInfer]_vars

\* the engine is synchronous: a call under way keeps running
SpecInferFair == SpecInfer /\ WF_vars(NextInfer)

----------------------------------------------------------------------------
(* The builder specification *)

Init ==
    /\ types = ProjectTypes
    /\ sources \in Projects
    /\ handle = NoType
    /\ InferIdle
    /\ EmptyDoc

Next ==
    \/ \E route \in Routes :
          AddRoute(route) /\ UNCHANGED <<types, sources>> /\ UNCHANGED inferVars
    \/ \E arg \in RoutesArgs :
          AddRoutes(arg) /\ UNCHANGED <<types, sources>> /\ UNCHANGED inferVars
    \/ \E server \in Servers :
          AddServer(server) /\ UNCHANGED <<types, sources>> /\ UNCHANGED inferVars
    \/ \E name \in SchemeNames, scheme \in Schemes :
          AddSecurityScheme(name, scheme) /\ UNCHANGED <<types, sources>>
              /\ UNCHANGED inferVars

Spec == Init /\ [][Next]_vars

----------------------------------------------------------------------------
(* Claims about type resolution and registration (specification Spec) *)

\* the source files, in order, that declare typeName
Declaring(typeName) ==
    { i \in 1..Len(sources) : sources[i][typeName].kind = "alias" }
FirstDeclaring(typeName) ==
    CHOOSE i \in Declaring(typeName) : \A j \in Declaring(typeName) : i <= j

\* the object fragment of an object type, read off the type table
ObjectShape(t) ==
    [type |-> "object",
     properties |-> [n \in { types[t].props[i].name : i \in DOMAIN types[t].props } |->
                        LET i == CHOOSE k \in DOMAIN types[t].props :
                                     types[t].props[k].name = n
                        IN  PropSchema(types[t].props[i].type)]]

IsArrayOfObject(t) ==
    /\ isArray(t)
    /\ ~isArray(types[t].elem)
    /\ ~isEnum(types[t].elem)
    /\ isObject(types[t].elem)

\* C1 as stated: for an alias that is an array of an object type, extractTypeSchema
\* returns the array wrapper {type: array, items: <object schema>} and stores the
\* element's object schema, not the wrapper, in components.schemas under the name.
C1_ElementRegistered ==
    \A i \in DOMAIN trace :
        (trace[i].ok /\ IsArrayOfObject(trace[i].tsType)) =>
            /\ trace[i].returned =
                   [type |-> "array", items |-> ObjectShape(types[trace[i].tsType].elem)]
            /\ schemas[trace[i].typeName] = ObjectShape(types[trace[i].tsType].elem)

\* C1 amended: for an alias that is an array of an object type, extractTypeSchema
\* returns the array wrapper {type: array, items: <object schema>} and stores that
\* same array wrapper in components.schemas under the requested name.
C1_WrapperRegistered ==
    \A i \in DOMAIN trace :
        (trace[i].ok /\ IsArrayOfObject(trace[i].tsType)) =>
            /\ trace[i].returned =
                   [type |-> "array", items |-> ObjectShape(types[trace[i].tsType].elem)]
            /\ schemas[trace[i].typeName] =
                   [type |-> "array", items |-> ObjectShape(types[trace[i].tsType].elem)]

C1_Witness ==
    /\ result.op = "addRoute"
    /\ result.status = "ok"
    /\ \E i \in DOMAIN trace :
          /\ trace[i].ok
          /\ trace[i].typeName = "UserList"
          /\ trace[i].tsType = TypeId("User", 1)
          /\ "properties" \in DOMAIN trace[i].returned.items

\* C2: the sources are scanned in order and the first one that declares the name
\* wins: the resolved type is the first declaring source's, and no source after
\* it is consulted.
C2_FirstSourceWins ==
    \A i \in DOMAIN trace :
        trace[i].ok =>
            /\ trace[i].index = FirstDeclaring(trace[i].typeName)
            /\ trace[i].tsType = sources[FirstDeclaring(trace[i].typeName)][trace[i].typeName].type
            /\ trace[i].lookups = trace[i].index

C2_Witness ==
    \E i \in DOMAIN trace :
        /\ trace[i].ok
        /\ Cardinality(Declaring(trace[i].typeName)) >= 2
        /\ sources[1][trace[i].typeName].type # sources[2][trace[i].typeName].type
        /\ trace[i].tsType = sources[1][trace[i].typeName].type
        /\ schemas[trace[i].typeName] # getSchemaForType(sources[2][trace[i].typeName].type)

\* C3: when no source declares the requested name the call fails with an error
\* that names the missing type, the builder call throws that error, and the
\* registry entry under that name is as it was before the call (absent or equal).
C3_Step ==
    \A i \in DOMAIN trace' :
        Declaring(trace'[i].typeName) = {} =>
            /\ ~trace'[i].ok
            /\ trace'[i].error.message =
                   <<"Type '", trace'[i].typeName, "' not found in any source files">>
            /\ result'.status = "error"
            /\ result'.error = trace'[i].error
            /\ (trace'[i].typeName \in DOMAIN schemas')
                   = (trace'[i].typeName \in DOMAIN schemas)
            /\ trace'[i].typeName \in DOMAIN schemas =>
                   schemas'[trace'[i].typeName] = schemas[trace'[i].typeName]

C3_MissingTypeFails == [][C3_Step]_vars

C3_Witness ==
    /\ result.status = "error"
    /\ \E i \in DOMAIN trace :
          /\ ~trace[i].ok
          /\ trace[i].typeName = "Ghost"
          /\ \E j \in 1..Len(sources) : sources[j]["Ghost"].kind = "none"
    /\ DOMAIN schemas # {}

\* C4: a lookup that throws on one source counts as "not in this source": a name
\* resolves exactly when some source declares it, whatever the sources before it
\* do, and the only error a resolution raises is type-not-found.
C4_LookupFailureSwallowed ==
    \A i \in DOMAIN trace :
        /\ trace[i].ok = (Declaring(trace[i].typeName) # {})
        /\ ~trace[i].ok =>
               /\ trace[i].error = TypeNotFound(trace[i].typeName)
               /\ trace[i].lookups = Len(sources)

C4_Witness ==
    \E i \in DOMAIN trace :
        /\ trace[i].ok
        /\ trace[i].index = 2
        /\ sources[1][trace[i].typeName].kind = "throw"
        /\ trace[i].typeName \in DOMAIN schemas

----------------------------------------------------------------------------
(* Claims about inference (specifications SpecInfer and SpecInferFair) *)

\* the type a handle is an array nesting of
Leaf(h) == TypeId(h.name, 0)

\* the fragment n array wrappers down
RECURSIVE Items(_, _)
Items(s, n) == IF n = 0 THEN s ELSE Items(s.items, n - 1)

\* the fragment inferred for Leaf(handle)
Innermost == Items(out, handle.dim)

\* s lists exactly the literal values of t's union members, in declaration order
ListsLiterals(s, t) ==
    /\ DOMAIN s = {"type", "enum"}
    /\ s.type = "string"
    /\ Len(s.enum) = Len(types[t].union)
    /\ \A i \in DOMAIN types[t].union : s.enum[i] = types[types[t].union[i]].literal

\* C5: an enum type infers to {type: string, enum: <the members' literal values in
\* declaration order>}, both at the top level (or as an array's element) and as the
\* type of an object property.
C5_EnumInOrder ==
    pc = "returned" =>
        /\ ("isEnum" \in types[Leaf(handle)].preds)
               => ListsLiterals(Innermost, Leaf(handle))
        /\ ("isEnum" \notin types[Leaf(handle)].preds
               /\ "isObject" \in types[Leaf(handle)].preds) =>
               \A i \in DOMAIN types[Leaf(handle)].props :
                   LET p == types[Leaf(handle)].props[i]
                   IN  "isEnum" \in types[p.type].preds =>
                           ListsLiterals(Innermost.properties[p.name], p.type)

C5_Witness ==
    /\ pc = "returned"
    /\ handle = TypeId("T", 0)
    /\ "isEnum" \in types[handle].preds
    /\ "isObject" \in types[handle].preds
    /\ out = [type |-> "string",
              enum |-> <<StrLit("user"), StrLit("admin"), StrLit("guest")>>]

PrimitivePredicates ==
    {"isNumberLiteral", "isNumber", "isStringLiteral", "isString",
     "isBooleanLiteral", "isBoolean"}

\* C6: in the fragment of an object type every property whose type is not an enum
\* is a bare {type: kind}: {type: array} without items for an array property and
\* {type: object} without properties for an object property.
C6_ShallowProperties ==
    (pc = "returned"
        /\ "isEnum" \notin types[Leaf(handle)].preds
        /\ "isObject" \in types[Leaf(handle)].preds) =>
            \A i \in DOMAIN types[Leaf(handle)].props :
                LET p == types[Leaf(handle)].props[i]
                    f == Innermost.properties[p.name]
                    ps == types[p.type].preds
                IN  "isEnum" \notin ps =>
                        /\ DOMAIN f = {"type"}
                        /\ (ps \cap PrimitivePredicates = {} /\ "isArray" \in ps)
                               => f.type = "array"
                        /\ (ps \cap PrimitivePredicates = {} /\ "isArray" \notin ps
                               /\ "isObject" \in ps) => f.type = "object"

C6_Witness ==
    /\ pc = "returned"
    /\ handle = TypeId("O", 1)
    /\ types[TypeId("T", 0)].preds = {"isObject"}
    /\ Len(types[TypeId("T", 0)].props) > 1
    /\ out.items.properties =
           [a |-> [type |-> "object"], b |-> [type |-> "array"],
            c |-> [type |-> "object"]]

\* the table of the primitive fallback, first row first
KindTable ==
    << [when |-> {"isNumberLiteral", "isNumber"}, kind |-> "number"],
       [when |-> {"isStringLiteral", "isString"}, kind |-> "string"],
       [when |-> {"isBooleanLiteral", "isBoolean"}, kind |-> "boolean"],
       [when |-> {"isArray"}, kind |-> "array"],
       [when |-> {"isObject"}, kind |-> "object"],
       [when |-> {"isNull", "isUndefined"}, kind |-> "null"] >>

MatchingRows(t) ==
    { i \in DOMAIN KindTable : KindTable[i].when \cap types[t].preds # {} }

FirstRowKind(t) ==
    IF MatchingRows(t) = {} THEN "string"
    ELSE KindTable[CHOOSE i \in MatchingRows(t) :
                       \A j \in MatchingRows(t) : i <= j].kind

\* C7: getTypeString answers the kind of the first matching row of the table, and
\* "string" when no row matches; a type that is neither array, enum nor object
\* infers to {type: <that kind>}.
C7_FirstMatchingRow ==
    /\ pc = "kind" => out = [type |-> FirstRowKind(handle)]
    /\ (pc = "returned"
           /\ "isEnum" \notin types[Leaf(handle)].preds
           /\ "isObject" \notin types[Leaf(handle)].preds)
        => Innermost = [type |-> FirstRowKind(Leaf(handle))]

C7_Witness ==
    /\ pc = "kind"
    /\ handle = TypeId("T", 0)
    /\ types[handle].preds = {"isArray", "isObject", "isNull", "isEnum"}
    /\ out = [type |-> "array"]

Kinds == {"string", "number", "boolean", "array", "object", "null"}

\* C8: for a type whose array nesting is finite, a call of getSchemaForType
\* returns a fragment and never throws, whatever predicates the type satisfies.
C8_InferenceTotal ==
    /\ [](pc = "thrown" => ~FiniteArrayNesting(handle))
    /\ (pc = "getSchemaForType" /\ FiniteArrayNesting(handle))
           ~> (pc = "returned" /\ out.type \in Kinds)

C8_Witness ==
    /\ pc = "returned"
    /\ handle = TypeId("T", MaxDepth)
    /\ types[TypeId("T", 0)].preds = Predicates \ {"isArray", "isEnum", "isObject"}
    /\ depth = MaxDepth
    /\ Innermost = [type |-> "number"]

----------------------------------------------------------------------------
(* Claims about the document and its registry (specification Spec) *)

\* the type typeName resolves to
Resolve(typeName) == sources[FirstDeclaring(typeName)][typeName].type

\* response i is the last of the route with its status code
LastWithCode(route, i) ==
    \A j \in DOMAIN route.responses :
        j > i => route.responses[j].statusCode # route.responses[i].statusCode

JsonSchema(body) == body.content["application/json"].schema

\* C9: after addRoute succeeds, the schema in the operation's application/json
\* content for a request body or response that names a non-array type equals
\* the entry of components.schemas under that name.
C9_OperationMatchesRegistry ==
    (result.op = "addRoute" /\ result.status = "ok") =>
        LET route == result.arg
            operation == paths[route.path][route.method]
        IN  /\ Truthy(route, "requestType") =>
                   (~isArray(Resolve(route.requestType)) =>
                        JsonSchema(operation.requestBody) = schemas[route.requestType])
            /\ \A i \in DOMAIN route.responses :
                   LET response == route.responses[i]
                   IN  (Truthy(response, "type") /\ LastWithCode(route, i)) =>
                           (~isArray(Resolve(response.type)) =>
                               JsonSchema(operation.responses[ToString(response.statusCode)])
                                   = schemas[response.type])

C9_Witness ==
    /\ result.op = "addRoute"
    /\ result.status = "ok"
    /\ result.arg = RouteCreate
    /\ "email" \in DOMAIN schemas["User"].properties
    /\ JsonSchema(paths[PathUsers]["post"].requestBody) = schemas["User"]
    /\ JsonSchema(paths[PathUsers]["post"].responses["201"]) = schemas["User"]

\* indices of the successful resolutions of name n in a trace
Resolutions(tr, n) == { i \in DOMAIN tr : tr[i].ok /\ tr[i].typeName = n }
LastResolution(tr, n) ==
    CHOOSE i \in Resolutions(tr, n) : \A j \in Resolutions(tr, n) : j <= i

\* C10: across every builder call no name leaves components.schemas, a name
\* resolved again is overwritten without that raising an error, and each entry is
\* the fragment computed by the latest successful resolution of its name.
C10_Step ==
    /\ DOMAIN schemas \subseteq DOMAIN schemas'
    /\ \A n \in DOMAIN schemas' :
           IF Resolutions(trace', n) # {}
           THEN schemas'[n] = trace'[LastResolution(trace', n)].computed
           ELSE /\ n \in DOMAIN schemas
                /\ schemas'[n] = schemas[n]
    /\ \A i \in DOMAIN trace' : trace'[i].ok => trace'[i].typeName \in DOMAIN schemas'
    /\ result'.status = "error" =>
           \/ result'.error.message = <<"Routes must be an array">>
           \/ /\ trace' # <<>>
              /\ ~trace'[Len(trace')].ok
              /\ result'.error = TypeNotFound(trace'[Len(trace')].typeName)

C10_RegistryAppendOnly == [][C10_Step]_vars

C10_Witness ==
    /\ calls >= 2
    /\ result.status = "ok"
    /\ Cardinality(DOMAIN schemas) >= 2
    /\ \E i, j \in DOMAIN trace :
          /\ i < j
          /\ trace[i].ok
          /\ trace[j].ok
          /\ trace[i].typeName = trace[j].typeName
    /\ \E n \in DOMAIN schemas : Resolutions(trace, n) = {}

----------------------------------------------------------------------------
(* Claims about the route translation (specification Spec) *)

\* the type names a route refers to, in the order addRoute meets them
TypedResponses(route) == SelectSeq(route.responses, LAMBDA r : Truthy(r, "type"))
References(route) ==
    (IF Truthy(route, "requestType") THEN <<route.requestType>> ELSE <<>>)
        \o [i \in 1..Len(TypedResponses(route)) |-> TypedResponses(route)[i].type]

\* the references of the first n routes of a batch
RECURSIVE BatchReferences(_, _)
BatchReferences(routes, n) ==
    IF n = 0 THEN <<>>
    ELSE BatchReferences(routes, n - 1) \o References(routes[n])

\* the references of the last public call
CallReferences ==
    IF result.op = "addRoute" THEN References(result.arg)
    ELSE IF result.op = "addRoutes"
    THEN BatchReferences(result.arg.items, Len(result.arg.items))
    ELSE <<>>

\* C11 as stated: each distinct name is resolved, inferred and registered once
\* per build: no call resolves a name twice, and no call resolves a name that an
\* earlier call has already registered.
C11_OncePerNameStep ==
    /\ \A i, j \in DOMAIN trace' :
           (i # j /\ trace'[i].ok /\ trace'[j].ok)
               => trace'[i].typeName # trace'[j].typeName
    /\ \A i \in DOMAIN trace' :
           trace'[i].ok => trace'[i].typeName \notin DOMAIN schemas

C11_OncePerName == [][C11_OncePerNameStep]_vars

\* C11 amended: every reference to a type name, repeated or not, runs its own
\* resolve+infer+register: the resolutions of a builder call are its references
\* in order (up to the first that fails), and the resolutions of one name all
\* compute the fragment the registry ends up holding.
C11_EveryReferenceResolves ==
    /\ Len(trace) <= Len(CallReferences)
    /\ \A i \in DOMAIN trace :
           /\ trace[i].typeName = CallReferences[i]
           /\ trace[i].lookups >= 1
           /\ trace[i].ok => schemas[trace[i].typeName] = trace[i].computed
           /\ ~trace[i].ok => (i = Len(trace) /\ result.status = "error")
    /\ result.status = "ok" => Len(trace) = Len(CallReferences)

C11_Witness ==
    /\ calls = 2
    /\ result.op = "addRoute"
    /\ result.arg = RouteCreate
    /\ result.status = "ok"
    /\ Len(trace) = 2
    /\ trace[1].typeName = "User"
    /\ trace[2].typeName = "User"
    /\ trace[1].lookups = 2
    /\ trace[2].lookups = 2

\* the braces of a path, read off the path itself
Opens(path) == { i \in DOMAIN path : path[i] = "{" }
CloseOf(path, i) ==
    CHOOSE j \in DOMAIN path :
        /\ j > i
        /\ path[j] = "}"
        /\ \A k \in (i + 1)..(j - 1) : path[k] # "}"
NthOpen(path, k) ==
    CHOOSE i \in Opens(path) : Cardinality({ j \in Opens(path) : j < i }) = k - 1
\* the placeholder names of a path whose braces pair up, left to right
Placeholders(path) ==
    [k \in 1..Cardinality(Opens(path)) |->
        SubSeq(path, NthOpen(path, k) + 1, CloseOf(path, NthOpen(path, k)) - 1)]

\* the description the route gives for the path parameter `name`, or the default
Described(route, name) ==
    LET given == IF "parameters" \notin DOMAIN route THEN <<>>
                 ELSE IF name \notin DOMAIN route.parameters THEN <<>>
                 ELSE IF "description" \notin DOMAIN route.parameters[name] THEN <<>>
                 ELSE route.parameters[name].description
    IN  IF given = <<>> THEN name \o <<" parameter">> ELSE given

CountOthers(route) ==
    (IF "queryParameters" \in DOMAIN route THEN Len(route.queryParameters) ELSE 0)
    + (IF "headers" \in DOMAIN route
       THEN IF "request" \in DOMAIN route.headers
            THEN Len(route.headers.request) ELSE 0
       ELSE 0)

\* what obj[method] finds, where own are the keys of obj itself and the keys
\* written on Object.prototype are inherited; <<>> stands for undefined
ReadKey(own, inh, method) ==
    IF method \in DOMAIN own THEN own[method]
    ELSE IF method \in DOMAIN inh[ProtoPath] THEN inh[ProtoPath][method]
    ELSE <<>>

\* what paths[path]?.[method] finds in the document: the operation a reader of
\* the specification object sees under that path and method, <<>> for none
Read(pathMap, inh, path, method) ==
    IF path \in DOMAIN pathMap THEN ReadKey(pathMap[path], inh, method)
    ELSE IF path \in InheritedPaths THEN ReadKey(inh[path], inh, method)
    ELSE IF path \in WrittenPaths(inh)
    THEN ReadKey(inh[ProtoPath][MethodSpelt(path)], inh, method)
    ELSE <<>>

\* C13: the operation addRoute installs has one path parameter per placeholder of
\* the path, left to right, each {in: path, required: true, schema: {type:
\* string}} with the non-empty description the route gives for it or else
\* "<name> parameter"; they come before every query and header parameter, and
\* the operation has no parameters key when the route has no path, query or
\* request-header parameter.
C13_PathParametersFirst ==
    (result.op = "addRoute" /\ result.status = "ok") =>
        LET route == result.arg
            operation == Read(paths, inherited, route.path, route.method)
            names == Placeholders(route.path)
            given == IF "parameters" \in DOMAIN operation
                     THEN operation.parameters ELSE <<>>
        IN  /\ Len(given) = Len(names) + CountOthers(route)
            /\ \A k \in 1..Len(names) :
                   given[k] = [name |-> names[k], in |-> "path", required |-> TRUE,
                               schema |-> [type |-> "string"],
                               description |-> Described(route, names[k])]
            /\ \A k \in DOMAIN given :
                   k > Len(names) => given[k].in \in {"query", "header"}
            /\ ("parameters" \in DOMAIN operation) = (Len(given) > 0)

\* the operations of a document, as (path, method) pairs
Operations(pathMap) ==
    { pm \in (DOMAIN pathMap) \X { r.method : r \in Routes } :
          pm[2] \in DOMAIN pathMap[pm[1]] }

\* the (path, method) pairs a reader may look up
Lookups(pathMap) ==
    (DOMAIN pathMap \cup { r.path : r \in Routes }) \X DOMAIN MethodSpelling

\* C14: addRoute touches no operation but the one under its own path and method:
\* what paths[path][method] finds under every other path and method of the
\* document is after the call what it was before, the path items of the document
\* stay, a call that returns leaves its own operation under its path and method
\* in paths, and servers and components.securitySchemes are as before.
C14_Step ==
    result'.op = "addRoute" =>
        LET route == result'.arg
            own == <<route.path, route.method>>
        IN  /\ \A pm \in Lookups(paths) \ {own} :
                   Read(paths', inherited', pm[1], pm[2]) =
                       Read(paths, inherited, pm[1], pm[2])
            /\ DOMAIN paths \subseteq DOMAIN paths'
            /\ result'.status = "ok" =>
                   /\ own \in Operations(paths')
                   /\ DOMAIN paths'[route.path][route.method].responses =
                          { ToString(route.responses[i].statusCode) :
                                i \in DOMAIN route.responses }
            /\ servers' = servers
            /\ securitySchemes' = securitySchemes

C14_OtherOperationsKept == [][C14_Step]_vars

\* the document after one more addRoute, unless an earlier one threw
OneMore(before, route) ==
    IF ~before.ok THEN before
    ELSE LET r == addRoute([paths |-> before.paths, schemas |-> before.schemas,
                            inherited |-> before.inherited], route)
         IN  [ok |-> r.ok, paths |-> r.paths, schemas |-> r.schemas,
              inherited |-> r.inherited]

\* the document after calling addRoute on each of the first n routes in turn
RECURSIVE OneByOne(_, _, _)
OneByOne(doc, routes, n) ==
    IF n = 0 THEN [ok |-> TRUE, paths |-> doc.paths, schemas |-> doc.schemas,
                   inherited |-> doc.inherited]
    ELSE OneMore(OneByOne(doc, routes, n - 1), routes[n])

\* the step of addRoutes on an array: what one addRoute after the other leaves
SameAsOneByOne(seq) ==
    seq = [ok |-> result'.status = "ok", paths |-> paths', schemas |-> schemas',
           inherited |-> inherited']

\* C15: addRoutes(routes) leaves the document that addRoute on each element in
\* array order leaves (stopping where one of them throws); addRoutes([]) leaves
\* the whole document as it was; a non-array argument raises "Routes must be an
\* array" and leaves the document as it was.
C15_Step ==
    result'.op = "addRoutes" =>
        /\ servers' = servers
        /\ securitySchemes' = securitySchemes
        /\ IF result'.arg.isArray
           THEN /\ SameAsOneByOne(OneByOne(Document, result'.arg.items,
                                           Len(result'.arg.items)))
                /\ result'.arg.items = <<>> =>
                       /\ paths' = paths
                       /\ schemas' = schemas
                       /\ result'.status = "ok"
           ELSE /\ result'.status = "error"
                /\ result'.error.message = <<"Routes must be an array">>
                /\ paths' = paths
                /\ schemas' = schemas

C15_AddRoutesIsAddRouteInOrder == [][C15_Step]_vars

C15_Witness ==
    /\ result.op = "addRoutes"
    /\ result.status = "ok"
    /\ result.arg.items = <<RouteList, RouteCreate>>
    /\ DOMAIN paths = {PathUsers}
    /\ DOMAIN paths[PathUsers] = {"get", "post"}
    /\ DOMAIN schemas = {"UserList", "User"}

\* C16: addServer appends its argument to servers, whether or not the list holds
\* it already, and no other builder call changes servers; so servers is the
\* sequence of addServer arguments in call order.
C16_Step ==
    IF result'.op = "addServer"
    THEN servers' = Append(servers, result'.arg)
    ELSE servers' = servers

C16_ServersInCallOrder == [][C16_Step]_vars

C16_Witness ==
    /\ calls = 2
    /\ result.op = "addServer"
    /\ Len(servers) = 2
    /\ servers[1] = servers[2]
    /\ servers[2] = result.arg

----------------------------------------------------------------------------
(* Claims about the precedence of the inference rules (SpecInfer, SpecInferFair) *)

\* the rule a fragment was emitted by, read off its keys
EmittedBy(s) ==
    IF DOMAIN s = {"type", "items"} /\ s.type = "array" THEN "array"
    ELSE IF DOMAIN s = {"type", "enum"} THEN "enum"
    ELSE IF DOMAIN s = {"type", "properties"} /\ s.type = "object" THEN "object"
    ELSE IF DOMAIN s = {"type"} THEN "primitive"
    ELSE "none"

\* the first rule, in the order array, enum, object, primitive, that type t matches
FirstRule(t) ==
    IF "isArray" \in types[t].preds THEN "array"
    ELSE IF "isEnum" \in types[t].preds THEN "enum"
    ELSE IF "isObject" \in types[t].preds THEN "object"
    ELSE "primitive"

\* C17: the fragment of a type is emitted by the first rule the type matches in
\* the order array, enum, object, primitive fallback, whatever other predicates
\* the type satisfies; an array's items are in turn the fragment of its element.
C17_RulePrecedence ==
    pc = "returned" =>
        \A k \in 0..handle.dim :
            EmittedBy(Items(out, k)) = FirstRule(TypeId(handle.name, handle.dim - k))

C17_Witness ==
    /\ pc = "returned"
    /\ handle = TypeId("T", 1)
    /\ {"isArray", "isEnum", "isObject", "isStringLiteral"} \subseteq types[handle].preds
    /\ types[TypeId("T", 0)].preds = {"isEnum", "isObject", "isStringLiteral"}
    /\ Len(types[TypeId("T", 0)].props) > 0
    /\ out.type = "array"
    /\ "enum" \in DOMAIN out.items
    /\ "properties" \notin DOMAIN out.items

\* every member of t's union is a number literal
NumericEnum(t) ==
    /\ "isEnum" \in types[t].preds
    /\ "isArray" \notin types[t].preds
    /\ types[t].union # <<>>
    /\ \A i \in DOMAIN types[t].union :
           /\ "isNumberLiteral" \in types[types[t].union[i]].preds
           /\ DOMAIN types[types[t].union[i]].literal = {"num"}

\* C18: the fragment of an enum whose members are all number literals has type
\* "number", at the top level (or as an array's element) and as the type of an
\* object property.
C18_NumericEnumIsNumber ==
    pc = "returned" =>
        /\ NumericEnum(Leaf(handle)) => Innermost.type = "number"
        /\ (FirstRule(Leaf(handle)) = "object") =>
               \A i \in DOMAIN types[Leaf(handle)].props :
                   LET p == types[Leaf(handle)].props[i]
                   IN  NumericEnum(p.type) =>
                           Innermost.properties[p.name].type = "number"

\* C19 as stated: an object type without properties is emitted by the primitive
\* fallback as a bare {type: object}, with no properties key.
C19_EmptyObjectIsBare ==
    (pc = "returned"
        /\ FirstRule(Leaf(handle)) = "object"
        /\ types[Leaf(handle)].props = <<>>)
    => Innermost = [type |-> "object"]

\* C19 amended: the object rule fires for every type that satisfies the object
\* predicate (and is neither array nor enum), with or without properties: an
\* object type without properties is emitted as {type: object, properties: {}},
\* and every object fragment has exactly its type's property names as keys.
C19_ObjectRuleAlwaysFires ==
    (pc = "returned" /\ FirstRule(Leaf(handle)) = "object") =>
        /\ DOMAIN Innermost = {"type", "properties"}
        /\ Innermost.type = "object"
        /\ DOMAIN Innermost.properties =
               { types[Leaf(handle)].props[i].name :
                     i \in DOMAIN types[Leaf(handle)].props }
        /\ types[Leaf(handle)].props = <<>> => Innermost.properties = <<>>

C19_Witness ==
    /\ pc = "returned"
    /\ handle = TypeId("T", 0)
    /\ types[handle].preds = {"isObject"}
    /\ types[handle].props = <<>>
    /\ out = [type |-> "object", properties |-> <<>>]

\* the types t refers to directly: its properties' types and its element type
RefersTo(t) ==
    { types[t].props[i].type : i \in DOMAIN types[t].props }
        \cup (IF types[t].elem = NoType THEN {} ELSE {types[t].elem})

\* the types reached from the set S in at most n further references
RECURSIVE ReachedFrom(_, _)
ReachedFrom(S, n) ==
    IF n = 0 THEN S
    ELSE ReachedFrom(S \cup UNION { RefersTo(t) : t \in S }, n - 1)

\* a property type or element type of t transitively refers back to t
RefersBack(t) == t \in ReachedFrom(RefersTo(t), Cardinality(DOMAIN types))

\* a property type of t transitively refers back to t, and t is not an array
RefersBackByProperty(t) == ~isArray(t) /\ RefersBack(t)

\* C20 as stated: inference of a type whose property type or array-element type
\* transitively refers back to the type does not terminate, so it never returns.
C20_CyclicNeverReturns ==
    pc = "returned" => ~RefersBack(handle)

\* C20 amended: only a cycle through array-element types keeps the inference from
\* returning: the recursion then goes on until the call stack is exhausted and no
\* fragment is returned; a type whose property types refer back to it is
\* inferred shallowly and its inference returns.
C20_OnlyArrayCyclesDiverge ==
    /\ [](pc = "returned" => FiniteArrayNesting(handle))
    /\ (pc = "getSchemaForType" /\ ~FiniteArrayNesting(handle)) ~> (pc = "thrown")
    /\ (pc = "getSchemaForType" /\ RefersBackByProperty(handle))
           ~> (pc = "returned" /\ EmittedBy(out) # "none")

C20_Witness ==
    /\ pc = "thrown"
    /\ handle = TypeId("Loop", 0)
    /\ RefersBack(handle)
    /\ ~FiniteArrayNesting(handle)
    /\ depth = MaxFrames
    /\ out = [error |-> "RangeError"]

----------------------------------------------------------------------------
(* Claims about failures and repeated registration (specification Spec) *)

\* the references of a route that no source declares, in reference order
Dangling(route) == SelectSeq(References(route), LAMBDA n : Declaring(n) = {})

\* indices of the routes of a batch that have a dangling reference
Failing(routes) == { i \in DOMAIN routes : Dangling(routes[i]) # <<>> }
FirstFailing(routes) ==
    CHOOSE i \in Failing(routes) : \A j \in Failing(routes) : i <= j

\* the operation under (path, method) is the same in both path maps, or in neither
SameOperation(before, after, pm) ==
    /\ (pm \in Operations(before)) = (pm \in Operations(after))
    /\ pm \in Operations(before) => after[pm[1]][pm[2]] = before[pm[1]][pm[2]]

\* C21: a route with a reference no source declares makes addRoute throw the
\* type-not-found error of the first such reference and leave the operation under
\* its path and method as it was (installed or not); addRoutes throws the error
\* of its first failing route, with the operations of the routes before it as
\* addRoute leaves them, no operation of a later route touched and no reference
\* of a later route resolved.
C21_Step ==
    /\ (result'.op = "addRoute" /\ Dangling(result'.arg) # <<>>) =>
           /\ result'.status = "error"
           /\ result'.error = TypeNotFound(Head(Dangling(result'.arg)))
           /\ SameOperation(paths, paths', <<result'.arg.path, result'.arg.method>>)
    /\ (result'.op = "addRoute" /\ Dangling(result'.arg) = <<>>) =>
           result'.status = "ok"
    /\ (result'.op = "addRoutes" /\ Failing(result'.arg.items) # {}) =>
           LET routes == result'.arg.items
               k == FirstFailing(routes)
           IN  /\ result'.status = "error"
               /\ result'.error = TypeNotFound(Head(Dangling(routes[k])))
               /\ \A before \in {OneByOne(Document, routes, k - 1)} :
                      /\ before.ok
                      /\ Operations(paths') = Operations(before.paths)
                      /\ \A pm \in Operations(paths') :
                             paths'[pm[1]][pm[2]] = before.paths[pm[1]][pm[2]]
               /\ \A i \in 1..(k - 1) :
                      <<routes[i].path, routes[i].method>> \in Operations(paths')
               /\ Len(trace') <= Len(BatchReferences(routes, k))

C21_FailurePropagates == [][C21_Step]_vars

C21_Witness ==
    /\ result.op = "addRoutes"
    /\ result.status = "error"
    /\ result.arg.items = <<RouteList, RouteGet, RouteCreate>> \/
           result.arg.items = <<RouteList, RouteGet>>
    /\ result.error = TypeNotFound("Ghost")
    /\ DOMAIN paths = {PathUsers, PathUser}
    /\ DOMAIN paths[PathUsers] = {"get"}
    /\ paths[PathUser] = <<>>
    /\ DOMAIN schemas = {"UserList", "User"}

\* C22: an addRoute call with the route of the addRoute call just before it
\* leaves paths and components.schemas as that call left them, and also what
\* that call wrote on Object.prototype and its methods when the path of the
\* route names one of them; and no builder call changes the entry of a name
\* that is already in components.schemas.
C22_Step ==
    /\ (calls >= 1 /\ result.op = "addRoute" /\ result'.op = "addRoute"
           /\ result'.arg = result.arg) =>
           /\ paths' = paths
           /\ schemas' = schemas
           /\ inherited' = inherited
           /\ result'.status = result.status
    /\ \A n \in DOMAIN schemas :
           /\ n \in DOMAIN schemas'
           /\ schemas'[n] = schemas[n]

C22_SameRouteAgain == [][C22_Step]_vars

C22_Witness ==
    /\ calls = 2
    /\ result.op = "addRoute"
    /\ result.arg = RouteCreate
    /\ result.status = "ok"
    /\ DOMAIN paths = {PathUsers}
    /\ DOMAIN paths[PathUsers] = {"post"}
    /\ Len(paths[PathUsers]["post"].parameters) = 1
    /\ DOMAIN schemas = {"User"}
    /\ servers = <<>>
    /\ securitySchemes = <<>>

\* the routes a builder call has installed an operation for
InstalledBy(res) ==
    IF res.op = "addRoute"
    THEN IF res.status = "ok" THEN {res.arg} ELSE {}
    ELSE IF res.op = "addRoutes" /\ res.arg.isArray
    THEN IF res.status = "ok"
         THEN { res.arg.items[i] : i \in DOMAIN res.arg.items }
         ELSE { res.arg.items[i] : i \in 1..(FirstFailing(res.arg.items) - 1) }
    ELSE {}

\* C23: every builder call, failed or not, leaves each type name referenced by
\* a route it installed an operation for in components.schemas, and takes no
\* name out of components.schemas; so every name an installed operation refers
\* to is registered. The operation of such a route is in paths when its path has
\* a path item there.
C23_Step ==
    /\ \A route \in InstalledBy(result') :
           /\ route.path \in DOMAIN paths' =>
                  <<route.path, route.method>> \in Operations(paths')
           /\ \A i \in DOMAIN References(route) :
                  References(route)[i] \in DOMAIN schemas'
    /\ DOMAIN schemas \subseteq DOMAIN schemas'
    /\ Operations(paths) \subseteq Operations(paths')
    /\ Operations(paths') \subseteq
           Operations(paths) \cup
               { <<route.path, route.method>> : route \in InstalledBy(result') }

====
